---- MODULE Spec2Model ----
(***************************************************************************)
(* Torsion detection on elliptic curves y^2 = x^3 + a*x + b over Q.        *)
(*                                                                         *)
(* The model follows src/src/elliptic_curve.py (Point, EllipticCurve) and  *)
(* src/src/torsion_finder.py (TorsionFinder).  A rational number is a      *)
(* fractions.Fraction: a pair <<numerator, denominator>> in lowest terms   *)
(* with a positive denominator.  An int argument is written <<n>>, so that *)
(* to_fraction has a conversion to perform.  Python's None is the pair     *)
(* <<0, 0>> where a coordinate is expected and 0 where an order is.        *)
(***************************************************************************)
EXTENDS Integers, Sequences, FiniteSets, TLC

VARIABLES curve, finder, torsion_cache, op, arg, raised, result, returned,
          path, frame

vars == <<curve, finder, torsion_cache, op, arg, raised, result, returned,
          path, frame>>

----------------------------------------------------------------------------
(* fractions.Fraction                                                      *)

None == <<0, 0>>

NoOrder == 0

Abs(n) == IF n < 0 THEN -n ELSE n

RECURSIVE gcd(_, _)
gcd(m, n) == IF n = 0 THEN Abs(m) ELSE gcd(Abs(n), Abs(m) % Abs(n))

\* Fraction(n, d) for d # 0: lowest terms, sign carried by the numerator.
Fraction(n, d) ==
    LET g == gcd(n, d)
        s == IF d < 0 THEN -1 ELSE 1
    IN  <<s * (n \div g), s * (d \div g)>>

\* p + q.  The common factor of the denominators is taken out first, as
\* Fraction._add does, so that no intermediate exceeds the result's size.
FAdd(p, q) ==
    LET g  == gcd(p[2], q[2])
        t  == p[1] * (q[2] \div g) + q[1] * (p[2] \div g)
        g2 == gcd(t, g)
    IN  <<t \div g2, (p[2] \div g) * (q[2] \div g2)>>

FNeg(p) == <<-p[1], p[2]>>

FSub(p, q) == FAdd(p, FNeg(q))

\* p * q, cross-reduced as Fraction._mul does.
FMul(p, q) ==
    LET g1 == gcd(p[1], q[2])
        g2 == gcd(q[1], p[2])
    IN  <<(p[1] \div g1) * (q[1] \div g2), (p[2] \div g2) * (q[2] \div g1)>>

\* The exception a division by zero raises, carried in place of the quotient
\* (no Fraction has denominator 0).
ZeroDivisionError == <<1, 0>>

\* p / q; raises ZeroDivisionError when q = 0.
FDiv(p, q) ==
    IF q[1] = 0 THEN ZeroDivisionError
    ELSE FMul(p, IF q[1] < 0 THEN <<-q[2], -q[1]>> ELSE <<q[2], q[1]>>)

\* p ** k for an int k >= 0.
RECURSIVE FPow(_, _)
FPow(p, k) == IF k = 0 THEN <<1, 1>> ELSE FMul(p, FPow(p, k - 1))

FInt(n) == <<n, 1>>

\* int(p): truncation toward zero.
FTrunc(p) == IF p[1] < 0 THEN -((-p[1]) \div p[2]) ELSE p[1] \div p[2]

----------------------------------------------------------------------------
(* ModularArithmetic.to_fraction                                           *)

\* A Fraction is returned as it is; an int n becomes
\* Fraction(n).limit_denominator() = n/1.
to_fraction(value) ==
    IF Len(value) = 2 THEN value ELSE Fraction(value[1], 1)

NoException == [exc |-> "", msg |-> ""]

\* Python's b // a and b % a for a # 0: the quotient is rounded toward
\* minus infinity and the remainder takes the sign of a.
floordiv(b, a) == IF a > 0 THEN b \div a ELSE (-b) \div (-a)

mod(b, a) == b - a * floordiv(b, a)

\* extended_gcd(a, b): the triple (gcd, x, y) it returns.
RECURSIVE extended_gcd(_, _)
extended_gcd(a, b) ==
    IF a = 0 THEN <<b, 0, 1>>
    ELSE LET r == extended_gcd(mod(b, a), a)
         IN  <<r[1], r[3] - floordiv(b, a) * r[2], r[2]>>

NoModularInverse ==
    [exc |-> "ValueError", msg |-> "Modular inverse does not exist"]

\* modular_inverse(a, m): the value returned, or the exception raised.
modular_inverse(a, m) ==
    LET r == extended_gcd(a, m)
    IN  IF r[1] # 1 THEN [raised |-> NoModularInverse, value |-> <<>>]
        ELSE [raised |-> NoException,
              value  |-> mod(mod(r[2], m) + m, m)]

is_coprime(a, b) == extended_gcd(a, b)[1] = 1

----------------------------------------------------------------------------
(* Point                                                                   *)

Point(x, y, is_identity) ==
    IF is_identity
    THEN [is_identity |-> TRUE, x |-> None, y |-> None]
    ELSE [is_identity |-> FALSE,
          x |-> IF x # None THEN to_fraction(x) ELSE None,
          y |-> IF y # None THEN to_fraction(y) ELSE None]

identity == Point(None, None, TRUE)

----------------------------------------------------------------------------
(* EllipticCurve                                                           *)

\* A discriminant with the sign of the second term slipped.
discriminant_minus(a, b) ==
    FMul(FInt(-16), FSub(FMul(FInt(4), FPow(a, 3)), FMul(FInt(27), FPow(b, 2))))

\* -16 (4 a^3 + 27 b^2)
discriminant(a, b) ==
    FMul(FInt(-16), FAdd(FMul(FInt(4), FPow(a, 3)), FMul(FInt(27), FPow(b, 2))))

InvalidCurve ==
    [exc |-> "ValueError", msg |-> "Invalid curve: discriminant equals zero"]

NoCurve == [a |-> None, b |-> None, field_mod |-> None]

\* EllipticCurve.__init__: the curve object, or the exception raised.
EllipticCurve(a, b) ==
    LET fa == to_fraction(a)
        fb == to_fraction(b)
    IN  IF discriminant(fa, fb) = FInt(0)
        THEN [raised |-> InvalidCurve, self |-> NoCurve]
        ELSE [raised |-> NoException,
              self   |-> [a |-> fa, b |-> fb, field_mod |-> None]]

is_on_curve(c, point) ==
    IF point.is_identity THEN TRUE
    ELSE LET x   == point.x
             y   == point.y
             lhs == FPow(y, 2)
             rhs == FAdd(FAdd(FPow(x, 3), FMul(c.a, x)), c.b)
         IN  lhs = rhs

\* The exception of a failed division, propagated out of add in place of
\* the point.
Raised(e) == [is_identity |-> FALSE, x |-> e, y |-> e]

\* An addition whose y3 is lambda (x1 - x3) + y1.
add_y3_plus(c, P, Q) ==
    IF P.is_identity THEN Q
    ELSE IF Q.is_identity THEN P
    ELSE LET x1 == P.x
             y1 == P.y
             x2 == Q.x
             y2 == Q.y
         IN  IF x1 = x2 /\ y1 = FNeg(y2) THEN identity
             ELSE LET lambda_val ==
                          IF P = Q
                          THEN FDiv(FAdd(FMul(FInt(3), FPow(x1, 2)), c.a),
                                    FMul(FInt(2), y1))
                          ELSE FDiv(FSub(y2, y1), FSub(x2, x1))
                      x3 == FSub(FSub(FPow(lambda_val, 2), x1), x2)
                      y3 == FAdd(FMul(lambda_val, FSub(x1, x3)), y1)
                  IN  Point(x3, y3, FALSE)

add(c, P, Q) ==
    IF P.is_identity THEN Q
    ELSE IF Q.is_identity THEN P
    ELSE LET x1 == P.x
             y1 == P.y
             x2 == Q.x
             y2 == Q.y
         IN  IF x1 = x2 /\ y1 = FNeg(y2) THEN identity
             ELSE IF P = Q /\ y1 = FInt(0) THEN identity
             ELSE IF P # Q /\ x2 = x1 THEN identity
             ELSE LET lambda_val ==
                          IF P = Q
                          THEN FDiv(FAdd(FMul(FInt(3), FPow(x1, 2)), c.a),
                                    FMul(FInt(2), y1))
                          ELSE FDiv(FSub(y2, y1), FSub(x2, x1))
                  IN  IF lambda_val = ZeroDivisionError
                      THEN Raised(ZeroDivisionError)
                      ELSE LET x3 == FSub(FSub(FPow(lambda_val, 2), x1), x2)
                               y3 == FSub(FMul(lambda_val, FSub(x1, x3)), y1)
                           IN  Point(x3, y3, FALSE)

double(c, P) == add(c, P, P)

\* A loop that adds the base point P where it should add the addend; P is
\* kept in the third argument, which is never doubled.
RECURSIVE scalar_multiply_loop_adds_base(_, _, _, _)
scalar_multiply_loop_adds_base(c, total, addend, n) ==
    IF total = Raised(ZeroDivisionError) THEN Raised(ZeroDivisionError)
    ELSE IF n <= 0 THEN total
    ELSE scalar_multiply_loop_adds_base(
             c, IF n % 2 = 1 THEN add(c, total, addend) ELSE total,
             addend, n \div 2)

\* The while loop of scalar_multiply: the running result (total), the addend and
\* the n still to consume.  An exception raised by add or double leaves the
\* loop at once.
RECURSIVE scalar_multiply_loop(_, _, _, _)
scalar_multiply_loop(c, total, addend, n) ==
    IF total = Raised(ZeroDivisionError)
       \/ addend = Raised(ZeroDivisionError)
    THEN Raised(ZeroDivisionError)
    ELSE IF n <= 0 THEN total
    ELSE scalar_multiply_loop(
             c, IF n % 2 = 1 THEN add(c, total, addend) ELSE total,
             double(c, addend), n \div 2)

RECURSIVE scalar_multiply(_, _, _)
scalar_multiply(c, P, n) ==
    IF n = 0 THEN identity
    ELSE IF n < 0
    THEN scalar_multiply(c,
                         IF ~P.is_identity
                         THEN Point(P.x, FNeg(P.y), FALSE) ELSE P,
                         -n)
    ELSE scalar_multiply_loop(c, identity, P, n)

\* is_integral_model(): true iff a and b both have denominator 1.
is_integral_model(c) == c.a[2] = 1 /\ c.b[2] = 1

----------------------------------------------------------------------------
(* TorsionFinder                                                           *)

MAZUR_MAX_ORDER == 12

MAZUR_CYCLIC_ORDERS == {1, 2, 3, 4, 5, 6, 7, 8, 9, 10, 12}

NonIntegralModel ==
    [exc |-> "ValueError",
     msg |-> "Nagell-Lutz requires integral Weierstrass model"]

NotOnCurve == [exc |-> "ValueError", msg |-> "Point is not on curve"]

ArithmeticRaised == [exc |-> "ZeroDivisionError", msg |-> "Fraction(_, 0)"]

EmptyDict == [P \in {} |-> NoOrder]

NoValue == [is_torsion |-> FALSE, order |-> NoOrder, multiples |-> <<>>]

\* A constructor without the integrality test.
TorsionFinder_unchecked(c) == NoException

\* TorsionFinder.__init__: the exception it raises, if any.
TorsionFinder(c) ==
    IF ~is_integral_model(c) THEN NonIntegralModel ELSE NoException

\* _compute_multiples: [P, 2P, ..., (order-1)P], current being the next one.
RECURSIVE compute_multiples_loop(_, _, _, _, _)
compute_multiples_loop(c, P, remaining, current, multiples) ==
    IF remaining <= 0 THEN multiples
    ELSE compute_multiples_loop(c, P, remaining - 1, add(c, current, P),
                                Append(multiples, current))

\* A recomputation that runs range(order) and so appends order * P as well.
compute_multiples_through_order(c, P, order) ==
    compute_multiples_loop(c, P, order, P, <<>>)

compute_multiples(c, P, order) ==
    compute_multiples_loop(c, P, order - 1, P, <<>>)

\* The loop of check_torsion from step n on: the value returned (or the
\* exception raised by add) and the cache it leaves.
RECURSIVE check_torsion_loop(_, _, _, _, _, _)
\* A loop whose cache write replaces the dictionary by {P: n}.
check_torsion_loop_replaces_cache(c, cache, P, n, current, multiples) ==
    IF n > MAZUR_MAX_ORDER
    THEN [raised |-> NoException,
          value  |-> [is_torsion |-> FALSE, order |-> NoOrder,
                      multiples |-> multiples],
          cache  |-> cache]
    ELSE IF current.is_identity
    THEN [raised |-> NoException,
          value  |-> [is_torsion |-> TRUE, order |-> n,
                      multiples |-> multiples],
          cache  |-> (P :> n)]
    ELSE LET next == add(c, current, P)
         IN  IF next = Raised(ZeroDivisionError)
             THEN [raised |-> ArithmeticRaised, value |-> NoValue,
                   cache |-> cache]
             ELSE check_torsion_loop(c, cache, P, n + 1, next,
                                     Append(multiples, current))

\* A loop that appends the current multiple before testing it for identity.
check_torsion_loop_append_first(c, cache, P, n, current, multiples) ==
    IF n > MAZUR_MAX_ORDER
    THEN [raised |-> NoException,
          value  |-> [is_torsion |-> FALSE, order |-> NoOrder,
                      multiples |-> multiples],
          cache  |-> cache]
    ELSE IF current.is_identity
    THEN [raised |-> NoException,
          value  |-> [is_torsion |-> TRUE, order |-> n,
                      multiples |-> Append(multiples, current)],
          cache  |-> (P :> n) @@ cache]
    ELSE LET next == add(c, current, P)
         IN  IF next = Raised(ZeroDivisionError)
             THEN [raised |-> ArithmeticRaised, value |-> NoValue,
                   cache |-> cache]
             ELSE check_torsion_loop(c, cache, P, n + 1, next,
                                     Append(multiples, current))

\* A loop that stops one step early, as range(1, MAZUR_MAX_ORDER) would.
check_torsion_loop_one_short(c, cache, P, n, current, multiples) ==
    IF n >= MAZUR_MAX_ORDER
    THEN [raised |-> NoException,
          value  |-> [is_torsion |-> FALSE, order |-> NoOrder,
                      multiples |-> multiples],
          cache  |-> cache]
    ELSE IF current.is_identity
    THEN [raised |-> NoException,
          value  |-> [is_torsion |-> TRUE, order |-> n,
                      multiples |-> multiples],
          cache  |-> (P :> n) @@ cache]
    ELSE LET next == add(c, current, P)
         IN  IF next = Raised(ZeroDivisionError)
             THEN [raised |-> ArithmeticRaised, value |-> NoValue,
                   cache |-> cache]
             ELSE check_torsion_loop(c, cache, P, n + 1, next,
                                     Append(multiples, current))

check_torsion_loop(c, cache, P, n, current, multiples) ==
    IF n > MAZUR_MAX_ORDER
    THEN [raised |-> NoException,
          value  |-> [is_torsion |-> FALSE, order |-> NoOrder,
                      multiples |-> multiples],
          cache  |-> cache]
    ELSE IF current.is_identity
    THEN [raised |-> NoException,
          value  |-> [is_torsion |-> TRUE, order |-> n,
                      multiples |-> multiples],
          cache  |-> (P :> n) @@ cache]
    ELSE LET next == add(c, current, P)
         IN  IF next = Raised(ZeroDivisionError)
             THEN [raised |-> ArithmeticRaised, value |-> NoValue,
                   cache |-> cache]
             ELSE check_torsion_loop(c, cache, P, n + 1, next,
                                     Append(multiples, current))

\* A check_torsion that enters the point in the cache before rejecting it.
check_torsion_caches_rejected(c, cache, P) ==
    IF ~is_on_curve(c, P)
    THEN [raised |-> NotOnCurve, value |-> NoValue,
          cache |-> (P :> NoOrder) @@ cache]
    ELSE IF P \in DOMAIN cache
    THEN [raised |-> NoException,
          value  |-> [is_torsion |-> TRUE, order |-> cache[P],
                      multiples |-> compute_multiples(c, P, cache[P])],
          cache  |-> cache]
    ELSE check_torsion_loop(c, cache, P, 1, P, <<>>)

check_torsion(c, cache, P) ==
    IF ~is_on_curve(c, P)
    THEN [raised |-> NotOnCurve, value |-> NoValue, cache |-> cache]
    ELSE IF P \in DOMAIN cache
    THEN [raised |-> NoException,
          value  |-> [is_torsion |-> TRUE, order |-> cache[P],
                      multiples |-> compute_multiples(c, P, cache[P])],
          cache  |-> cache]
    ELSE check_torsion_loop(c, cache, P, 1, P, <<>>)

\* check_torsion of the top-level torsion_finder.py: the cache is consulted
\* before the point is tested against the curve.
check_torsion_legacy(c, cache, P) ==
    IF P \in DOMAIN cache
    THEN [raised |-> NoException,
          value  |-> [is_torsion |-> TRUE, order |-> cache[P],
                      multiples |-> compute_multiples(c, P, cache[P])],
          cache  |-> cache]
    ELSE IF ~is_on_curve(c, P)
    THEN [raised |-> NotOnCurve, value |-> NoValue, cache |-> cache]
    ELSE check_torsion_loop(c, cache, P, 1, P, <<>>)

\* math.isqrt(n), by bisection on lo <= isqrt(n) < hi.
RECURSIVE isqrt_between(_, _, _)
isqrt_between(n, lo, hi) ==
    IF hi - lo <= 1 THEN lo
    ELSE LET mid == (lo + hi) \div 2
         IN  IF mid * mid <= n THEN isqrt_between(n, mid, hi)
             ELSE isqrt_between(n, lo, mid)

RECURSIVE isqrt_above(_, _)
isqrt_above(n, hi) == IF hi * hi > n THEN hi ELSE isqrt_above(n, 2 * hi)

isqrt(n) == isqrt_between(n, 0, isqrt_above(n, 1))

integer_divisors(n0) ==
    LET n    == Abs(n0)
        divs == UNION {{d, n \div d} : d \in {e \in 1..isqrt(n) : n % e = 0}}
    IN  divs \cup {-d : d \in divs}

\* Delta % (d * d) == 0 for Delta > 0.  When |d| > isqrt(Delta) the square
\* exceeds Delta, the remainder is Delta itself and the test is false; the
\* square is formed only below that, where it is at most Delta.
square_divides(d, Delta) ==
    Abs(d) <= isqrt(Delta) /\ Delta % (d * d) = 0

\* The largest k with k^3 <= n.
RECURSIVE icbrt_between(_, _, _)
icbrt_between(n, lo, hi) ==
    IF hi - lo <= 1 THEN lo
    ELSE LET mid == (lo + hi) \div 2
         IN  IF mid * mid * mid <= n THEN icbrt_between(n, mid, hi)
             ELSE icbrt_between(n, lo, mid)

RECURSIVE icbrt_above(_, _)
icbrt_above(n, hi) == IF hi * hi * hi > n THEN hi ELSE icbrt_above(n, 2 * hi)

\* int(abs(y)**(2/3) + abs(A) + abs(B) + 10).  The float power rounds to
\* within an ulp of |y|^(2/3), so truncation gives the floor of the exact
\* sum unless |y|^(2/3) is an integer k, where the float may fall just
\* below k and the sum truncate to one less: ulp_below says which.
\* A window without the |A| + |B| + 10 margin.
x_window_no_margin(y, A, B, ulp_below) ==
    LET k == icbrt_between(y * y, 0, icbrt_above(y * y, 1))
    IN  IF ulp_below /\ k > 0 /\ k * k * k = y * y THEN k - 1 ELSE k

x_window(y, A, B, ulp_below) ==
    LET k == icbrt_between(y * y, 0, icbrt_above(y * y, 1))
    IN  (IF ulp_below /\ k > 0 /\ k * k * k = y * y THEN k - 1 ELSE k)
        + Abs(A) + Abs(B) + 10

nagell_lutz_candidates(c, ulp_below) ==
    LET A        == FTrunc(c.a)
        B        == FTrunc(c.b)
        Delta    == Abs(FTrunc(discriminant(c.a, c.b)))
        y_values == {0} \cup {d \in integer_divisors(Delta) :
                                 d # 0 /\ square_divides(d, Delta)}
        found(y) == LET bound == x_window(y, A, B, ulp_below)
                    IN  {Point(<<x>>, <<y>>, FALSE) :
                           x \in {x \in (-bound)..bound :
                                     y * y = x * x * x + A * x + B}}
    IN  {identity} \cup
        {P \in UNION {found(y) : y \in y_values} : is_on_curve(c, P)}

count_order_2(orders) == Cardinality({P \in DOMAIN orders : orders[P] = 2})

max_order_of(orders) ==
    CHOOSE m \in {orders[P] : P \in DOMAIN orders} :
        \A P \in DOMAIN orders : orders[P] <= m

\* The product rule of the top-level torsion_finder.py: an even size in
\* place of size = 2 * max_order.
analyze_group_structure_even_size(points, orders) ==
    IF Len(points) = 0 THEN "Trivial"
    ELSE IF Len(points) = 1 THEN "Z/1Z"
    ELSE LET size      == Len(points)
             max_order == max_order_of(orders)
         IN  IF size = max_order
             THEN "Z/" \o ToString(max_order) \o "Z"
             ELSE IF size % 2 = 0 /\ count_order_2(orders) >= 3
             THEN "Z/2Z x Z/" \o ToString(max_order) \o "Z"
             ELSE "Unknown (size=" \o ToString(size) \o ", max_order="
                  \o ToString(max_order) \o ")"

analyze_group_structure(points, orders) ==
    IF Len(points) = 0 THEN "Trivial"
    ELSE IF Len(points) = 1 THEN "Z/1Z"
    ELSE LET size      == Len(points)
             max_order == max_order_of(orders)
         IN  IF size = max_order
             THEN "Z/" \o ToString(max_order) \o "Z"
             ELSE IF count_order_2(orders) >= 3 /\ size = 2 * max_order
             THEN "Z/2Z x Z/" \o ToString(max_order) \o "Z"
             ELSE "Unknown (size=" \o ToString(size) \o ", max_order="
                  \o ToString(max_order) \o ")"

\* The loop of find_torsion_subgroup over the candidates still to classify.
RECURSIVE classify_candidates(_, _, _, _, _)

\* One pass of the loop body: r is what check_torsion(P) gave for the head P
\* of todo.
classify_candidate(c, todo, torsion_points, orders, P, r) ==
    IF r.raised # NoException
    THEN [raised |-> r.raised, torsion_points |-> torsion_points,
          orders |-> orders, cache |-> r.cache]
    ELSE IF r.value.is_torsion
    THEN classify_candidates(c, r.cache, Tail(todo),
                             Append(torsion_points, P),
                             (P :> r.value.order) @@ orders)
    ELSE classify_candidates(c, r.cache, Tail(todo), torsion_points, orders)

\* A loop that leaves the last candidate unclassified.
classify_candidates_drop_last(c, cache, todo, torsion_points, orders) ==
    IF Len(todo) <= 1
    THEN [raised |-> NoException, torsion_points |-> torsion_points,
          orders |-> orders, cache |-> cache]
    ELSE classify_candidate(c, todo, torsion_points, orders, Head(todo),
                            check_torsion(c, cache, Head(todo)))

classify_candidates(c, cache, todo, torsion_points, orders) ==
    IF todo = <<>>
    THEN [raised |-> NoException, torsion_points |-> torsion_points,
          orders |-> orders, cache |-> cache]
    ELSE classify_candidate(c, todo, torsion_points, orders, Head(todo),
                            check_torsion(c, cache, Head(todo)))

\* The dictionary find_torsion_subgroup returns, r being the outcome of its
\* loop.
torsion_data(r) ==
    [raised |-> r.raised,
     value  |-> [torsion_points  |-> r.torsion_points,
                 orders          |-> r.orders,
                 group_structure |->
                     IF r.raised = NoException
                     THEN analyze_group_structure(r.torsion_points, r.orders)
                     ELSE "",
                 size            |-> Len(r.torsion_points)],
     cache  |-> r.cache]

\* find_torsion_subgroup with the candidate list in the given order.
find_torsion_subgroup(c, cache, candidate_points, search_range) ==
    torsion_data(classify_candidates(c, cache, candidate_points, <<>>,
                                     EmptyDict))

\* The dictionary verify_torsion_theorem returns, r being what
\* find_torsion_subgroup gave.
verification(r, valid_sizes) ==
    [raised |-> r.raised,
     value  |-> [is_valid          |-> r.value.size \in valid_sizes
                                       \/ r.value.size = 1,
                 size              |-> r.value.size,
                 structure         |-> r.value.group_structure,
                 conforms_to_mazur |-> r.value.size \in valid_sizes
                                       \/ r.value.size = 1,
                 torsion_points    |-> r.value.torsion_points],
     cache  |-> r.cache]

verify_torsion_theorem(c, cache, candidate_points) ==
    verification(find_torsion_subgroup(c, cache, candidate_points, 20),
                 MAZUR_CYCLIC_ORDERS \cup {4, 8, 12, 16})

----------------------------------------------------------------------------
(* Inputs                                                                  *)

I(n) == <<n>>

\* Coefficient pairs (a, b) given to EllipticCurve: integral curves with
\* torsion of order 1, 2, 3, 4, 6 and 7, one with a point of infinite order,
\* singular pairs (4a^3 + 27b^2 = 0) and non-integral pairs.
CurveInputs ==
    { <<I(-1), I(0)>>, <<I(-2), I(1)>>, <<I(0), I(1)>>, <<I(0), I(4)>>,
      <<I(4), I(0)>>, <<I(1), I(0)>>, <<I(0), I(-2)>>, <<I(-43), I(166)>>,
      <<I(-12), I(20)>>,
      <<I(0), I(0)>>, <<I(-3), I(2)>>, <<I(-3), I(-2)>>, <<I(-12), I(16)>>,
      <<<<-3, 4>>, <<1, 4>>>>, <<<<-1, 3>>, <<-2, 27>>>>,
      <<<<1, 2>>, I(0)>>, <<I(0), <<1, 4>>>>, <<<<-1, 1>>, <<0, 1>>>> }

IntegerPoints ==
    { <<0, 0>>, <<1, 0>>, <<-1, 0>>, <<0, 1>>, <<0, -1>>, <<2, 3>>,
      <<0, 2>>, <<2, 4>>, <<-2, 6>>, <<3, 8>>, <<-5, -16>>, <<1, 1>> }

RationalPoints ==
    { <<<<1, 2>>, <<1, 2>>>>, <<<<0, 1>>, <<1, 2>>>> }

PointInputs ==
    {identity}
    \cup {Point(I(xy[1]), I(xy[2]), FALSE) : xy \in IntegerPoints}
    \cup {Point(xy[1], xy[2], FALSE) : xy \in RationalPoints}

SearchRanges == {20}

\* The orders in which list(candidates) may enumerate a set.
RECURSIVE Orderings(_)
Orderings(S) ==
    IF S = {} THEN {<<>>}
    ELSE UNION {{<<x>> \o rest : rest \in Orderings(S \ {x})} : x \in S}

\* find_torsion_subgroup is taken for finders whose candidate set has at
\* most this many points: its orderings stay enumerable and every candidate's
\* multiples stay within 32-bit integers.
MaxCandidates == 4

----------------------------------------------------------------------------
(* The session: a curve, a finder on it, and calls on the finder           *)

NoResult == <<>>

\* No caller has a call in progress.
NoFrames == <<>>

NoneReturned == [P \in {} |-> NoValue]

Init ==
    /\ curve = NoCurve
    /\ finder = FALSE
    /\ torsion_cache = EmptyDict
    /\ op = "init"
    /\ arg = <<>>
    /\ raised = NoException
    /\ result = NoResult
    /\ returned = NoneReturned
    /\ path = ""
    /\ frame = NoFrames

\* curve = EllipticCurve(a, b); a finder on an earlier curve is dropped.
MakeCurve(a, b) ==
    LET r == EllipticCurve(a, b)
    IN  /\ curve' = r.self
        /\ finder' = FALSE
        /\ torsion_cache' = EmptyDict
        /\ op' = "EllipticCurve"
        /\ arg' = <<a, b>>
        /\ raised' = r.raised
        /\ result' = NoResult
        /\ returned' = NoneReturned
        /\ path' = ""
        /\ UNCHANGED frame

\* finder = TorsionFinder(curve)
MakeFinder ==
    /\ curve # NoCurve
    /\ LET e == TorsionFinder(curve)
       IN  /\ finder' = (e = NoException)
           /\ raised' = e
    /\ torsion_cache' = EmptyDict
    /\ op' = "TorsionFinder"
    /\ arg' = <<>>
    /\ result' = NoResult
    /\ returned' = NoneReturned
    /\ path' = ""
    /\ UNCHANGED frame
    /\ UNCHANGED curve

\* What check_torsion returned for each point the first time it returned.
Record(history, c, cache, points) ==
    [P \in DOMAIN history \cup points |->
        IF P \in DOMAIN history THEN history[P]
        ELSE check_torsion(c, cache, P).value]

\* The call returns r.value or raises r.raised, leaving the cache r.cache.
Return(r) ==
    /\ torsion_cache' = r.cache
    /\ raised' = r.raised
    /\ result' = r.value

\* check_torsion(P) returns or raises, and what it returns is kept if it is
\* the first value returned for P.
ReturnFirst(P, r) ==
    /\ Return(r)
    /\ returned' = IF r.raised = NoException /\ P \notin DOMAIN returned
                    THEN (P :> r.value) @@ returned
                    ELSE returned

\* finder.check_torsion(P)
CheckTorsion(P) ==
    /\ finder
    /\ ReturnFirst(P, check_torsion(curve, torsion_cache, P))
    /\ UNCHANGED frame
    /\ path' = IF ~is_on_curve(curve, P) THEN "rejected"
               ELSE IF P \in DOMAIN torsion_cache THEN "cached"
               ELSE "computed"
    /\ op' = "check_torsion"
    /\ arg' = P
    /\ UNCHANGED <<curve, finder>>

\* finder.find_torsion_subgroup(search_range)
FindTorsionSubgroup(search_range) ==
    /\ finder
    /\ \E candidates \in
            {nagell_lutz_candidates(curve, ulp_below) : ulp_below \in BOOLEAN} :
             /\ Cardinality(candidates) <= MaxCandidates
             /\ returned' = Record(returned, curve, torsion_cache, candidates)
             /\ \E candidate_points \in Orderings(candidates) :
                  Return(find_torsion_subgroup(curve, torsion_cache,
                                               candidate_points,
                                               search_range))
    /\ path' = ""
    /\ UNCHANGED frame
    /\ op' = "find_torsion_subgroup"
    /\ arg' = search_range
    /\ UNCHANGED <<curve, finder>>

\* finder.verify_torsion_theorem()
VerifyTorsionTheorem ==
    /\ finder
    /\ \E candidates \in
            {nagell_lutz_candidates(curve, ulp_below) : ulp_below \in BOOLEAN} :
             /\ Cardinality(candidates) <= MaxCandidates
             /\ returned' = Record(returned, curve, torsion_cache, candidates)
             /\ \E candidate_points \in Orderings(candidates) :
                  Return(verify_torsion_theorem(curve, torsion_cache,
                                                candidate_points))
    /\ path' = ""
    /\ UNCHANGED frame
    /\ op' = "verify_torsion_theorem"
    /\ arg' = <<>>
    /\ UNCHANGED <<curve, finder>>

Next ==
    \/ \E ab \in CurveInputs : MakeCurve(ab[1], ab[2])
    \/ MakeFinder
    \/ \E P \in PointInputs : CheckTorsion(P)
    \/ \E search_range \in SearchRanges : FindTorsionSubgroup(search_range)
    \/ VerifyTorsionTheorem

Spec == Init /\ [][Next]_vars

----------------------------------------------------------------------------
(* The group law as a function: curve.add(P, Q) on points of the curve     *)

\* Further points of the input curves, on which one addition is computed.
AddPoints ==
    PointInputs
    \cup {Point(I(xy[1]), I(xy[2]), FALSE) :
            xy \in { <<2, -3>>, <<-2, -6>>, <<4, 6>>, <<1, 3>>, <<2, 2>>,
                     <<-4, 2>>, <<-4, -2>>, <<3, -8>>, <<11, 32>> }}
    \cup {Point(xy[1], xy[2], FALSE) :
            xy \in { <<<<0, 1>>, <<-1, 2>>>>, <<<<1, 4>>, <<3, 8>>>>,
                     <<<<1, 4>>, <<-3, 8>>>> }}

Curves ==
    {EllipticCurve(ab[1], ab[2]).self : ab \in CurveInputs} \ {NoCurve}

InitAdd ==
    /\ curve \in Curves
    /\ finder = FALSE
    /\ torsion_cache = EmptyDict
    /\ op = "init"
    /\ arg \in {PQ \in AddPoints \X AddPoints :
                   is_on_curve(curve, PQ[1]) /\ is_on_curve(curve, PQ[2])}
    /\ raised = NoException
    /\ result = NoResult
    /\ returned = NoneReturned
    /\ path = ""
    /\ frame = NoFrames

\* curve.add(P, Q)
Add ==
    /\ op = "init"
    /\ op' = "add"
    /\ LET r == add(curve, arg[1], arg[2])
       IN  /\ raised' = IF r = Raised(ZeroDivisionError)
                         THEN ArithmeticRaised ELSE NoException
           /\ result' = r
    /\ UNCHANGED <<curve, finder, torsion_cache, arg, returned, path, frame>>

NextAdd == Add

SpecAdd == InitAdd /\ [][NextAdd]_vars

----------------------------------------------------------------------------
(* The sieve as a function of the curve                                    *)

\* Integral curves y^2 = x^3 + A x + B with |A|, |B| up to this.
MaxCoefficient == 4

SieveCurves ==
    {c \in Curves : is_integral_model(c)}
    \cup ({EllipticCurve(I(A), I(B)).self :
              A \in (-MaxCoefficient)..MaxCoefficient,
              B \in (-MaxCoefficient)..MaxCoefficient} \ {NoCurve})

InitSieve ==
    /\ curve \in SieveCurves
    /\ finder = TRUE
    /\ torsion_cache = EmptyDict
    /\ op = "init"
    /\ arg = <<>>
    /\ raised = NoException
    /\ result = NoResult
    /\ returned = NoneReturned
    /\ path = ""
    /\ frame = NoFrames

\* finder._nagell_lutz_candidates()
NagellLutzCandidates ==
    /\ op = "init"
    /\ op' = "_nagell_lutz_candidates"
    /\ \E ulp_below \in BOOLEAN :
         /\ result' = nagell_lutz_candidates(curve, ulp_below)
         /\ arg' = ulp_below
    /\ UNCHANGED <<curve, finder, torsion_cache, raised, returned, path, frame>>

NextSieve == NagellLutzCandidates

SpecSieve == InitSieve /\ [][NextSieve]_vars

----------------------------------------------------------------------------
(* The classifier as a function of (points, orders)                        *)

MaxPoints == 5

MaxOrderValue == 4

PointPool ==
    <<identity, Point(I(0), I(0), FALSE), Point(I(1), I(0), FALSE),
      Point(I(-1), I(0), FALSE), Point(I(0), I(1), FALSE),
      Point(I(0), I(-1), FALSE), Point(I(2), I(3), FALSE),
      Point(I(2), I(-3), FALSE)>>

\* The first n points of the pool, for n up to MaxPoints.
PointLists ==
    {SubSeq(PointPool, 1, n) :
       n \in 0..(IF MaxPoints < Len(PointPool) THEN MaxPoints
                  ELSE Len(PointPool))}

Range(seq) == {seq[i] : i \in 1..Len(seq)}

InitClassify ==
    /\ curve = EllipticCurve(I(-1), I(0)).self
    /\ finder = TRUE
    /\ torsion_cache = EmptyDict
    /\ op = "init"
    /\ \E points \in PointLists :
         \E orders \in [Range(points) -> 1..MaxOrderValue] :
            arg = <<points, orders>>
    /\ raised = NoException
    /\ result = NoResult
    /\ returned = NoneReturned
    /\ path = ""
    /\ frame = NoFrames

\* finder._analyze_group_structure(points, orders)
AnalyzeGroupStructure ==
    /\ op = "init"
    /\ op' = "_analyze_group_structure"
    /\ result' = analyze_group_structure(arg[1], arg[2])
    /\ UNCHANGED <<curve, finder, torsion_cache, arg, raised, returned, path,
                   frame>>

NextClassify == AnalyzeGroupStructure

SpecClassify == InitClassify /\ [][NextClassify]_vars

----------------------------------------------------------------------------
(* scalar_multiply as a function of the curve, the point and n             *)

MaxScalar == 12

ScalarInputs == (-MaxScalar)..MaxScalar

\* The input points on the curve c.  (2, 3) has infinite order on
\* y^2 = x^3 + x/2 and its multiples leave 32-bit integers at once; it is
\* taken on y^2 = x^3 + 1, where it has order 6.
ScalarPoints(c) ==
    {P \in PointInputs :
        /\ is_on_curve(c, P)
        /\ ~(c.a = <<1, 2>> /\ P = Point(I(2), I(3), FALSE))}

InitScalar ==
    /\ curve \in Curves
    /\ finder = FALSE
    /\ torsion_cache = EmptyDict
    /\ op = "init"
    /\ arg \in {Pn \in ScalarPoints(curve) \X ScalarInputs : TRUE}
    /\ raised = NoException
    /\ result = NoResult
    /\ returned = NoneReturned
    /\ path = ""
    /\ frame = NoFrames

\* curve.scalar_multiply(P, n)
ScalarMultiply ==
    /\ op = "init"
    /\ op' = "scalar_multiply"
    /\ LET r == scalar_multiply(curve, arg[1], arg[2])
       IN  /\ raised' = IF r = Raised(ZeroDivisionError)
                         THEN ArithmeticRaised ELSE NoException
           /\ result' = r
    /\ UNCHANGED <<curve, finder, torsion_cache, arg, returned, path, frame>>

NextScalar == ScalarMultiply

SpecScalar == InitScalar /\ [][NextScalar]_vars

----------------------------------------------------------------------------
(* modular_inverse and is_coprime as functions of two ints                 *)

MaxOperand == 12

MaxModulus == 12

InitModular ==
    /\ curve = NoCurve
    /\ finder = FALSE
    /\ torsion_cache = EmptyDict
    /\ op = "init"
    /\ arg \in ((-MaxOperand)..MaxOperand) \X (2..MaxModulus)
    /\ raised = NoException
    /\ result = NoResult
    /\ returned = NoneReturned
    /\ path = ""
    /\ frame = NoFrames

\* ModularArithmetic.modular_inverse(a, m)
ModularInverse ==
    /\ op = "init"
    /\ op' = "modular_inverse"
    /\ LET r == modular_inverse(arg[1], arg[2])
       IN  /\ raised' = r.raised
           /\ result' = r.value
    /\ UNCHANGED <<curve, finder, torsion_cache, arg, returned, path, frame>>

\* ModularArithmetic.is_coprime(a, b)
IsCoprime ==
    /\ op = "init"
    /\ op' = "is_coprime"
    /\ result' = is_coprime(arg[1], arg[2])
    /\ UNCHANGED <<curve, finder, torsion_cache, arg, raised, returned, path,
                   frame>>

NextModular == ModularInverse \/ IsCoprime

SpecModular == InitModular /\ [][NextModular]_vars

----------------------------------------------------------------------------
(* Two callers in check_torsion on one finder, step by step                *)

Callers == {1, 2}

\* The locals of a caller that has not called yet.
IdleFrame ==
    [pc |-> "idle", P |-> identity, n |-> NoOrder, current |-> identity,
     multiples |-> <<>>, order |-> NoOrder, path |-> "",
     raised |-> NoException, value |-> NoValue]

InitConcurrent ==
    /\ curve \in {c \in Curves : is_integral_model(c)}
    /\ finder = TRUE
    /\ torsion_cache = EmptyDict
    /\ op = "init"
    /\ arg = <<>>
    /\ raised = NoException
    /\ result = NoResult
    /\ returned = NoneReturned
    /\ path = ""
    /\ frame = [t \in Callers |-> IdleFrame]

\* Caller t enters finder.check_torsion(P).
Call(t, P) ==
    /\ frame[t].pc = "idle"
    /\ frame' = [frame EXCEPT ![t] = [IdleFrame EXCEPT !.pc = "on_curve",
                                                       !.P = P]]
    /\ UNCHANGED torsion_cache

\* if not self.curve.is_on_curve(P): raise ValueError
TestOnCurve(t) ==
    /\ frame[t].pc = "on_curve"
    /\ frame' = [frame EXCEPT ![t] =
                    IF ~is_on_curve(curve, frame[t].P)
                    THEN [@ EXCEPT !.pc = "done", !.raised = NotOnCurve,
                                   !.path = "rejected"]
                    ELSE [@ EXCEPT !.pc = "lookup"]]
    /\ UNCHANGED torsion_cache

\* if P in self.torsion_cache; on a miss current = P, multiples = [] and
\* the loop starts at n = 1.
Lookup(t) ==
    /\ frame[t].pc = "lookup"
    /\ frame' = [frame EXCEPT ![t] =
                    IF frame[t].P \in DOMAIN torsion_cache
                    THEN [@ EXCEPT !.pc = "read", !.path = "cached"]
                    ELSE [@ EXCEPT !.pc = "loop", !.path = "computed",
                                   !.n = 1, !.current = frame[t].P,
                                   !.multiples = <<>>]]
    /\ UNCHANGED torsion_cache

\* order = self.torsion_cache[P]
ReadOrder(t) ==
    /\ frame[t].pc = "read"
    /\ frame' = [frame EXCEPT ![t] =
                    [@ EXCEPT !.pc = "recompute",
                              !.order = torsion_cache[frame[t].P]]]
    /\ UNCHANGED torsion_cache

\* return {..., "multiples": self._compute_multiples(P, order)}
Recompute(t) ==
    /\ frame[t].pc = "recompute"
    /\ frame' = [frame EXCEPT ![t] =
                    [@ EXCEPT !.pc = "done",
                              !.value =
                                  [is_torsion |-> TRUE,
                                   order      |-> frame[t].order,
                                   multiples  |->
                                       compute_multiples(curve, frame[t].P,
                                                         frame[t].order)]]]
    /\ UNCHANGED torsion_cache

\* The frame after one pass of the loop that does not find the identity:
\* next is add(current, P).
Advance(f, next) ==
    IF next = Raised(ZeroDivisionError)
    THEN [f EXCEPT !.pc = "done", !.raised = ArithmeticRaised]
    ELSE [f EXCEPT !.pc = IF f.n + 1 > MAZUR_MAX_ORDER THEN "exhausted"
                          ELSE "loop",
                   !.n = f.n + 1,
                   !.current = next,
                   !.multiples = Append(f.multiples, f.current)]

\* A pass of the loop that also enters the running n in the cache.
Iterate_writes_early(t) ==
    /\ frame[t].pc = "loop"
    /\ frame' = [frame EXCEPT ![t] =
                    IF frame[t].current.is_identity
                    THEN [@ EXCEPT !.pc = "write"]
                    ELSE Advance(frame[t],
                                 add(curve, frame[t].current, frame[t].P))]
    /\ torsion_cache' = (frame[t].P :> frame[t].n) @@ torsion_cache

\* One pass of for n in range(1, MAZUR_MAX_ORDER + 1): the identity test,
\* or multiples.append(current) and current = add(current, P).
Iterate(t) ==
    /\ frame[t].pc = "loop"
    /\ frame' = [frame EXCEPT ![t] =
                    IF frame[t].current.is_identity
                    THEN [@ EXCEPT !.pc = "write"]
                    ELSE Advance(frame[t],
                                 add(curve, frame[t].current, frame[t].P))]
    /\ UNCHANGED torsion_cache

\* self.torsion_cache[P] = n, and the return that follows it.
Write(t) ==
    /\ frame[t].pc = "write"
    /\ torsion_cache' = (frame[t].P :> frame[t].n) @@ torsion_cache
    /\ frame' = [frame EXCEPT ![t] =
                    [@ EXCEPT !.pc = "done",
                              !.value = [is_torsion |-> TRUE,
                                         order      |-> frame[t].n,
                                         multiples  |-> frame[t].multiples]]]

\* The return after the loop has run out.
Exhausted(t) ==
    /\ frame[t].pc = "exhausted"
    /\ frame' = [frame EXCEPT ![t] =
                    [@ EXCEPT !.pc = "done",
                              !.value = [is_torsion |-> FALSE,
                                         order      |-> NoOrder,
                                         multiples  |-> frame[t].multiples]]]
    /\ UNCHANGED torsion_cache

Step(t) ==
    \/ \E P \in PointInputs : Call(t, P)
    \/ TestOnCurve(t)
    \/ Lookup(t)
    \/ ReadOrder(t)
    \/ Recompute(t)
    \/ Iterate(t)
    \/ Write(t)
    \/ Exhausted(t)

NextConcurrent ==
    /\ \E t \in Callers : Step(t)
    /\ UNCHANGED <<curve, finder, op, arg, raised, result, returned, path>>

SpecConcurrent == InitConcurrent /\ [][NextConcurrent]_vars

----------------------------------------------------------------------------
(* Properties                                                              *)

\* k * P by repeated addition of P: P, P + P, (P + P) + P, ...
RECURSIVE Multiple(_, _, _)
Multiple(c, P, k) ==
    IF k = 1 THEN P ELSE add(c, Multiple(c, P, k - 1), P)

\* The n in 1..12 with n * P the identity.
OrdersWithinBound(c, P) ==
    {n \in 1..MAZUR_MAX_ORDER : Multiple(c, P, n) = identity}

Least(S) == CHOOSE n \in S : \A m \in S : n <= m

\* C1: for a point P on the curve with n * P the identity for some n in
\* 1..12, check_torsion(P) returns is_torsion true, order the least such n,
\* and multiples the list [P, 2P, ..., (n-1)P], which has n - 1 entries, is
\* empty for the identity and never holds the identity.
C1_TorsionResult ==
    (op = "check_torsion" /\ is_on_curve(curve, arg)
        /\ OrdersWithinBound(curve, arg) # {})
    => LET n == Least(OrdersWithinBound(curve, arg))
       IN  /\ raised = NoException
           /\ result.is_torsion
           /\ result.order = n
           /\ Len(result.multiples) = n - 1
           /\ \A k \in 1..(n - 1) :
                 /\ result.multiples[k] = Multiple(curve, arg, k)
                 /\ result.multiples[k] # identity

\* A point of order 7 has been classified, with its six multiples.
C1_Witness ==
    /\ op = "check_torsion"
    /\ raised = NoException
    /\ path = "computed"
    /\ result.is_torsion
    /\ result.order = 7
    /\ Len(result.multiples) = 6

\* C2: for a point P on the curve with n * P not the identity for every n in
\* 1..12, check_torsion(P) returns is_torsion false, no order, and exactly
\* the 12 multiples [P, 2P, ..., 12P], and the cache has no entry for P.
C2_NonTorsionResult ==
    (op = "check_torsion" /\ is_on_curve(curve, arg)
        /\ OrdersWithinBound(curve, arg) = {})
    => /\ raised = NoException
       /\ ~result.is_torsion
       /\ result.order = NoOrder
       /\ Len(result.multiples) = 12
       /\ \A k \in 1..12 : result.multiples[k] = Multiple(curve, arg, k)
       /\ arg \notin DOMAIN torsion_cache

\* A point of infinite order has been classified after 12 additions.
C2_Witness ==
    /\ op = "check_torsion"
    /\ raised = NoException
    /\ arg = Point(I(-2), I(6), FALSE)
    /\ ~result.is_torsion
    /\ Len(result.multiples) = 12

\* C3: every call check_torsion(P) that returns, returns what the first call
\* on that finder for P returned (is_torsion, order and multiples), the calls
\* answered from the cache through _compute_multiples included.
C3_Idempotent ==
    (op = "check_torsion" /\ raised = NoException)
    => /\ arg \in DOMAIN returned
       /\ result = returned[arg]

\* A call for a point of order 4 has been answered from the cache.
C3_Witness ==
    /\ op = "check_torsion"
    /\ raised = NoException
    /\ path = "cached"
    /\ result.order = 4
    /\ Len(result.multiples) = 3

K4Points ==
    {identity, Point(I(0), I(0), FALSE), Point(I(1), I(0), FALSE),
     Point(I(-1), I(0), FALSE)}

SieveGridX == 200

IntegerPoint(P) == ~P.is_identity /\ P.x[2] = 1 /\ P.y[2] = 1

\* C5: on an integral curve the sieve returns the identity and every
\* integer point (x, y) of the curve with y = 0 or y^2 dividing
\* Delta = |int(discriminant)|, the x window excluding none of them; so
\* every integer point of order at most 12 is a candidate.
C5_SieveSound ==
    op = "_nagell_lutz_candidates"
    => LET A     == curve.a[1]
           B     == curve.b[1]
           Delta == 16 * Abs(4 * A * A * A + 27 * B * B)
       IN  /\ identity \in result
           /\ \A x \in (-SieveGridX)..SieveGridX :
                 LET r == x * x * x + A * x + B
                     y == IF r >= 0 THEN isqrt(r) ELSE 0
                 IN  (r >= 0 /\ y * y = r /\ (r = 0 \/ Delta % r = 0))
                     => /\ Point(I(x), I(y), FALSE) \in result
                        /\ Point(I(x), I(-y), FALSE) \in result
           /\ curve \in Curves
              => \A P \in PointInputs :
                    (IntegerPoint(P) /\ is_on_curve(curve, P)
                        /\ check_torsion(curve, EmptyDict, P).value.is_torsion)
                    => P \in result

\* The sieve has run on the curve with torsion Z/7Z with the float power
\* falling below the cube root of 8^2, and has kept (3, 8).
C5_Witness ==
    /\ op = "_nagell_lutz_candidates"
    /\ arg = TRUE
    /\ curve = EllipticCurve(I(-43), I(166)).self
    /\ Point(I(3), I(8), FALSE) \in result
    /\ Cardinality(result) = 7

\* C6: _analyze_group_structure answers by the first rule that applies:
\* no points, "Trivial"; one point, "Z/1Z"; size equal to the largest order
\* m, "Z/mZ"; at least three points of order 2 and size 2m, "Z/2Z x Z/mZ";
\* otherwise an unknown-structure label carrying the size.
C6_GroupStructure ==
    op = "_analyze_group_structure"
    => LET points == arg[1]
           orders == arg[2]
           size   == Len(points)
           values == {orders[P] : P \in DOMAIN orders}
           m      == CHOOSE v \in values : \A w \in values : w <= v
           twos   == Cardinality({P \in DOMAIN orders : orders[P] = 2})
       IN  IF size = 0 THEN result = "Trivial"
           ELSE IF size = 1 THEN result = "Z/1Z"
           ELSE IF size = m THEN result = "Z/" \o ToString(m) \o "Z"
           ELSE IF twos >= 3 /\ size = 2 * m
           THEN result = "Z/2Z x Z/" \o ToString(m) \o "Z"
           ELSE result = "Unknown (size=" \o ToString(size)
                         \o ", max_order=" \o ToString(m) \o ")"

\* Four points, three of order 2 and one of order 3: no rule applies.
C6_Witness ==
    /\ op = "_analyze_group_structure"
    /\ Len(arg[1]) = 4
    /\ Cardinality({P \in DOMAIN arg[2] : arg[2][P] = 2}) = 3
    /\ result = "Unknown (size=4, max_order=3)"

NonIntegral(c) == c # NoCurve /\ (c.a[2] # 1 \/ c.b[2] # 1)

\* C7: on a non-singular curve with a non-integer coefficient, constructing
\* a TorsionFinder raises NonIntegralModel; no finder exists on such a curve
\* and no call returns a result for it.
C7_NonIntegralRejected ==
    NonIntegral(curve)
    => /\ ~finder
       /\ op \in {"EllipticCurve", "TorsionFinder"}
       /\ result = NoResult
       /\ op = "TorsionFinder" => raised = NonIntegralModel

\* The constructor has refused y^2 = x^3 + x/2.
C7_Witness ==
    /\ op = "TorsionFinder"
    /\ curve.a = <<1, 2>>
    /\ raised = NonIntegralModel
    /\ ~finder

Numerator(value) == value[1]

Denominator(value) == IF Len(value) = 2 THEN value[2] ELSE 1

\* C8: EllipticCurve(a, b) raises InvalidCurve when 4a^3 + 27b^2 = 0 and
\* otherwise yields the curve with coefficients a and b.
C8_NonSingular ==
    op = "EllipticCurve"
    => LET p == Numerator(arg[1])
           q == Denominator(arg[1])
           r == Numerator(arg[2])
           s == Denominator(arg[2])
       IN  IF 4 * p * p * p * s * s + 27 * r * r * q * q * q = 0
           THEN raised = InvalidCurve /\ curve = NoCurve
           ELSE /\ raised = NoException
                /\ curve = [a |-> <<p, q>>, b |-> <<r, s>>,
                            field_mod |-> None]

\* The constructor has refused the nodal cubic y^2 = x^3 - 3x + 2.
C8_Witness ==
    /\ op = "EllipticCurve"
    /\ arg = <<I(-3), I(2)>>
    /\ raised = InvalidCurve
    /\ curve = NoCurve

\* C9: check_torsion(P) for a finite P off the curve raises NotOnCurve and
\* leaves the cache as it was, in either copy of torsion_finder.py; no point
\* off the curve is ever in the cache.
C9_OffCurveRejected ==
    /\ [](\A P \in DOMAIN torsion_cache : is_on_curve(curve, P))
    /\ [](finder => \A P \in PointInputs :
             ~is_on_curve(curve, P)
             => check_torsion_legacy(curve, torsion_cache, P)
                = [raised |-> NotOnCurve, value |-> NoValue,
                   cache |-> torsion_cache])
    /\ [][(op' = "check_torsion" /\ ~is_on_curve(curve', arg'))
          => /\ raised' = NotOnCurve
             /\ result' = NoValue
             /\ torsion_cache' = torsion_cache]_vars

\* A point off the curve has been refused by a finder whose cache holds
\* points.
C9_Witness ==
    /\ op = "check_torsion"
    /\ path = "rejected"
    /\ raised = NotOnCurve
    /\ ~arg.is_identity
    /\ Cardinality(DOMAIN torsion_cache) >= 2

\* C10: for P and Q on the curve, add(P, Q) raises nothing and returns a
\* point on the curve (the identity or a finite point satisfying the
\* equation exactly).
C10_AddClosed ==
    op = "add"
    => /\ raised = NoException
       /\ result # Raised(ZeroDivisionError)
       /\ is_on_curve(curve, result)

\* A doubling has produced a point with non-integer coordinates.
C10_Witness ==
    /\ op = "add"
    /\ arg[1] = arg[2]
    /\ ~result.is_identity
    /\ result.x[2] # 1

\* C11: for a point P on the curve and n >= 0, scalar_multiply(P, n) is the
\* identity for n = 0 and otherwise P added to itself by repeated add, n
\* terms in all (so P for n = 1), also when P is a torsion point and the
\* running result or the doubled addend passes through the identity.
C11_ScalarMultiply ==
    (op = "scalar_multiply" /\ arg[2] >= 0)
    => /\ raised = NoException
       /\ result = IF arg[2] = 0 THEN identity
                   ELSE Multiple(curve, arg[1], arg[2])

\* 6 * P for P = (0, 1) of order 3 on y^2 = x^3 + 1: the addend runs
\* P, 2P, P and the result 2P, then the identity.
C11_Witness ==
    /\ op = "scalar_multiply"
    /\ curve = EllipticCurve(I(0), I(1)).self
    /\ arg = <<Point(I(0), I(1), FALSE), 6>>
    /\ Multiple(curve, arg[1], 3) = identity
    /\ result = identity

\* C12: for every integer a of either sign and every m >= 2,
\* modular_inverse(a, m) returns an x with (a * x) mod m = 1 when
\* gcd(a, m) = 1 and raises NoModularInverse when gcd(a, m) # 1.
C12_ModularInverse ==
    (op = "modular_inverse" /\ arg[2] >= 2)
    => IF gcd(arg[1], arg[2]) = 1
       THEN /\ raised = NoException
            /\ mod(arg[1] * result, arg[2]) = 1
       ELSE raised = NoModularInverse

\* The same for a >= 0 only.
C12_NonNegative ==
    (op = "modular_inverse" /\ arg[1] >= 0 /\ arg[2] >= 2)
    => IF gcd(arg[1], arg[2]) = 1
       THEN /\ raised = NoException
            /\ mod(arg[1] * result, arg[2]) = 1
       ELSE raised = NoModularInverse

\* For a < 0 the call raises, whatever gcd(a, m) is.
C12_NegativeRaises ==
    (op = "modular_inverse" /\ arg[1] < 0) => raised = NoModularInverse

\* C13: in every reachable state each cache entry P -> n has P on the curve,
\* 1 <= n <= 12, nP the identity and kP not the identity for 1 <= k < n; and
\* no call of check_torsion, find_torsion_subgroup or verify_torsion_theorem
\* on the finder changes or removes an entry.
C13_CacheAppendOnly ==
    /\ [](\A P \in DOMAIN torsion_cache :
             /\ is_on_curve(curve, P)
             /\ torsion_cache[P] \in 1..12
             /\ Multiple(curve, P, torsion_cache[P]) = identity
             /\ \A k \in 1..(torsion_cache[P] - 1) :
                   Multiple(curve, P, k) # identity)
    /\ [][op' \in {"check_torsion", "find_torsion_subgroup",
                   "verify_torsion_theorem"}
          => \A P \in DOMAIN torsion_cache :
                /\ P \in DOMAIN torsion_cache'
                /\ torsion_cache'[P] = torsion_cache[P]]_vars

\* A computed check_torsion has added an entry of order 4 to a cache that
\* already held two.
C13_Witness ==
    /\ op = "check_torsion"
    /\ path = "computed"
    /\ result.order = 4
    /\ arg \in DOMAIN torsion_cache
    /\ Cardinality(DOMAIN torsion_cache) >= 3

\* What check_torsion(P) gives when it runs alone on a fresh finder.
Sequential(P) == check_torsion(curve, EmptyDict, P)

\* C14: with two callers in check_torsion on one finder, their steps
\* interleaved in any order, every call that has ended raised or returned
\* what a sequential run does for its point, and every cache entry is the
\* order a sequential run finds for its key.
C14_RaceHarmless ==
    /\ \A t \in DOMAIN frame :
          frame[t].pc = "done"
          => /\ frame[t].raised = Sequential(frame[t].P).raised
             /\ frame[t].value = Sequential(frame[t].P).value
    /\ frame # NoFrames
       => \A P \in DOMAIN torsion_cache :
             /\ Sequential(P).raised = NoException
             /\ Sequential(P).value.is_torsion
             /\ torsion_cache[P] = Sequential(P).value.order

\* Both callers missed the cache for the same point of order 4, both ran
\* the loop and both have returned.
C14_Witness ==
    /\ frame # NoFrames
    /\ \A t \in Callers :
          /\ frame[t].pc = "done"
          /\ frame[t].path = "computed"
          /\ frame[t].value.order = 4
    /\ frame[1].P = frame[2].P

====
